---- MODULE Spec2Model ----
(***************************************************************************)
(* A model of app.py: the /detect pipeline (validation, preprocessing, the *)
(* shared TFLite interpreter, postprocessing, annotation) and the          *)
(* /image/<filename> retrieval endpoint over the temporary directory.      *)
(*                                                                         *)
(* Numbers.  Confidence scores are tenths (7 stands for 0.7).  A           *)
(* normalized box coordinate is the numerator k of k/BoxDen, so that       *)
(* values below 0 and above 1 are k < 0 and k > BoxDen.  A horizontal      *)
(* centre (a + b) / 2 is kept as its numerator a + b over 2.               *)
(***************************************************************************)
EXTENDS Integers, Sequences, FiniteSets, TLC

VARIABLES pc, req, loc, last, interpreter, files, written, created,
          started, log, concurrent, post

vars == <<pc, req, loc, last, interpreter, files, written, created,
          started, log, concurrent, post>>

server_vars == <<pc, req, loc, last, interpreter, files, written, created,
                 started, log, concurrent>>

(***************************************************************************)
(* Bounds of the model.                                                    *)
(***************************************************************************)
NumDet == 2
BoxDen == 4
imW == 8
imH == 6
NumThreads == 2
MaxRequests == 3

(***************************************************************************)
(* Module-level state of app.py.                                           *)
(***************************************************************************)
labels == <<"eye", "pupil">>

min_conf_threshold == 5

default_min_conf == 1

IndexError == "IndexError"

(***************************************************************************)
(* Python helpers.                                                         *)
(***************************************************************************)
\* int(n / d) for d > 0: truncation toward zero
IntTrunc(n, d) == IF n >= 0 THEN n \div d ELSE -((-n) \div d)

\* int(max(1, k/BoxDen * dim))
IntMax1(k, dim) ==
    LET n == k * dim
        m == IF n > BoxDen THEN n ELSE BoxDen
    IN  IntTrunc(m, BoxDen)

\* int(min(dim, k/BoxDen * dim))
IntMinDim(k, dim) ==
    LET n == k * dim
        m == IF n < dim * BoxDen THEN n ELSE dim * BoxDen
    IN  IntTrunc(m, BoxDen)

\* labels[c] with Python's list indexing: a negative index counts from the end
LabelLookup(c) ==
    LET n == Len(labels)
    IN  IF c >= 0 /\ c < n THEN labels[c + 1]
        ELSE IF c < 0 /\ c >= -n THEN labels[n + c + 1]
        ELSE IndexError

\* one iteration body of the loop over the model outputs: the appended dict
MakeDetection(box, class, score) ==
    [object     |-> LabelLookup(class),
     confidence |-> score,
     box        |-> <<IntMax1(box[2], imW), IntMax1(box[1], imH),
                      IntMinDim(box[4], imW), IntMinDim(box[3], imH)>>]

RECURSIVE FilterLoop(_, _, _, _, _)
\* for i in range(len(scores)): if scores[i] > min_conf: detections.append(...)
\* raised is TRUE once a kept index has no label (labels[...] raises IndexError)
FilterLoop(boxes, classes, scores, min_conf, i) ==
    IF i > Len(scores) THEN [raised |-> FALSE, dets |-> <<>>]
    ELSE IF scores[i] > min_conf
         THEN IF LabelLookup(classes[i]) = IndexError
              THEN [raised |-> TRUE, dets |-> <<>>]
              ELSE LET rest == FilterLoop(boxes, classes, scores, min_conf, i + 1)
                   IN  IF rest.raised THEN rest
                       ELSE [raised |-> FALSE,
                             dets   |-> <<MakeDetection(boxes[i], classes[i], scores[i])>>
                                        \o rest.dets]
         ELSE FilterLoop(boxes, classes, scores, min_conf, i + 1)

\* insert d behind every element whose confidence is >= d's
RECURSIVE InsertDesc(_, _)
InsertDesc(s, d) ==
    IF s = <<>> THEN <<d>>
    ELSE IF Head(s).confidence >= d.confidence
         THEN <<Head(s)>> \o InsertDesc(Tail(s), d)
         ELSE <<d>> \o s

\* variant: insert d before the elements of equal confidence
RECURSIVE InsertDescUnstable(_, _)
InsertDescUnstable(s, d) ==
    IF s = <<>> THEN <<d>>
    ELSE IF Head(s).confidence > d.confidence
         THEN <<Head(s)>> \o InsertDescUnstable(Tail(s), d)
         ELSE <<d>> \o s

RECURSIVE SortFrom(_, _)
SortFrom(acc, s) ==
    IF s = <<>> THEN acc ELSE SortFrom(InsertDesc(acc, Head(s)), Tail(s))

RECURSIVE SortFromUnstable(_, _)
SortFromUnstable(acc, s) ==
    IF s = <<>> THEN acc
    ELSE SortFromUnstable(InsertDescUnstable(acc, Head(s)), Tail(s))

\* variant: a descending sort that reverses equal keys
SortedByConfidenceUnstable(dets) == SortFromUnstable(<<>>, dets)

\* sorted(detections, key=lambda x: x['confidence'], reverse=True):
\* a stable sort, equal keys keep their order also under reverse=True
SortedByConfidence(dets) == SortFrom(<<>>, dets)

\* numerator of (d['box'][0] + d['box'][2]) / 2
Center2(d) == d.box[1] + d.box[3]

Relabel(d, name) == [d EXCEPT !.object = name]

\* variant: the comparison of the centres turned around
RelabelTwoSwapped(dets) ==
    IF Center2(dets[1]) > Center2(dets[2])
    THEN <<Relabel(dets[1], "left_eye"), Relabel(dets[2], "right_eye")>>
    ELSE <<Relabel(dets[1], "right_eye"), Relabel(dets[2], "left_eye")>>

\* the branch len(detections) == 2
RelabelTwo(dets) ==
    IF Center2(dets[1]) < Center2(dets[2])
    THEN <<Relabel(dets[1], "left_eye"), Relabel(dets[2], "right_eye")>>
    ELSE <<Relabel(dets[1], "right_eye"), Relabel(dets[2], "left_eye")>>

\* variant: center_x <= imW / 2
RelabelOneInclusive(dets) ==
    IF Center2(dets[1]) <= imW
    THEN <<Relabel(dets[1], "left_eye")>>
    ELSE <<Relabel(dets[1], "right_eye")>>

\* the branch len(detections) == 1: center_x < imW / 2
RelabelOne(dets) ==
    IF Center2(dets[1]) < imW
    THEN <<Relabel(dets[1], "left_eye")>>
    ELSE <<Relabel(dets[1], "right_eye")>>

\* the left/right disambiguation on the sorted list
Disambiguate(dets) ==
    IF Len(dets) = 2 THEN RelabelTwo(dets)
    ELSE IF Len(dets) = 1 THEN RelabelOne(dets)
    ELSE dets

\* the detection list of tflite_detect_image with its intermediate lists,
\* or IndexError when the label lookup raised
Postprocess(out, min_conf) ==
    LET f == FilterLoop(out.boxes, out.classes, out.scores, min_conf, 1)
    IN  IF f.raised
        THEN [error |-> IndexError, kept |-> <<>>, sorted |-> <<>>, detections |-> <<>>]
        ELSE [error      |-> "none",
              kept       |-> f.dets,
              sorted     |-> SortedByConfidence(f.dets),
              detections |-> Disambiguate(SortedByConfidence(f.dets))]

(***************************************************************************)
(* The postprocessing of one model output, for every output and threshold  *)
(* of the bounded input sets.                                              *)
(***************************************************************************)
\* (ymin, xmin, ymax, xmax): a box in the left half, one in the right half, a
\* centred one, and one whose minima lie above 1 and whose maxima lie below 0
BoxSet == { <<1, 0, 3, 2>>, <<1, 2, 3, 4>>, <<1, 1, 3, 3>>, <<5, 5, -1, -1>> }

ClassSet == (-1) .. Len(labels)

ScoreSet == {5, 6, 7}

MinConfSet == {default_min_conf, min_conf_threshold}

ModelOutputs ==
    { [boxes |-> b, classes |-> c, scores |-> s] :
        b \in [1 .. NumDet -> BoxSet],
        c \in [1 .. NumDet -> ClassSet],
        s \in [1 .. NumDet -> ScoreSet] }

NoPost == [stage |-> "off"]

\* lines 56-87 of tflite_detect_image applied to the drawn model output
RunPostprocess ==
    /\ post.stage = "input"
    /\ post' = [stage    |-> "done",
                out      |-> post.out,
                min_conf |-> post.min_conf,
                result   |-> Postprocess(post.out, post.min_conf)]
    /\ UNCHANGED server_vars

(***************************************************************************)
(* The server: request threads over the shared interpreter and the         *)
(* temporary directory.                                                    *)
(***************************************************************************)
Threads == 1 .. NumThreads

\* names handed out by tempfile.NamedTemporaryFile, in order of creation
Filenames == 1 .. MaxRequests

Images == {"one_eye", "two_eyes", "mislabelled"}

\* the 'image' field of the JSON body: absent, "", bytes that are no image, an image
Payloads == {"absent", "empty", "garbage"} \cup Images

NoOutput == [boxes |-> <<>>, classes |-> <<>>, scores |-> <<>>]

\* interpreter.invoke(): the output tensors the model computes for an input tensor
Model(image) ==
    IF image = "two_eyes"
    THEN [boxes   |-> <<(<<1, 2, 3, 4>>), (<<1, 0, 3, 2>>)>>,
          classes |-> <<0, 1>>,
          scores  |-> <<7, 6>>]
    ELSE IF image = "one_eye"
    THEN [boxes   |-> <<(<<1, 0, 3, 2>>), (<<1, 2, 3, 4>>)>>,
          classes |-> <<0, 0>>,
          scores  |-> <<7, 5>>]
    ELSE IF image = "mislabelled"
    THEN [boxes   |-> <<(<<1, 1, 3, 3>>), (<<1, 2, 3, 4>>)>>,
          classes |-> <<Len(labels), 0>>,
          scores  |-> <<7, 5>>]
    ELSE NoOutput

NoFile == [image |-> "none", drawn |-> <<>>]

\* the JPEG that cv2.imwrite stores: the resized image with the detections drawn
Annotate(image, dets) == [image |-> image, drawn |-> dets]

NoReq == [kind |-> "none", payload |-> "none", filename |-> 0]

NoLoc == [image_np |-> "none", raw |-> NoOutput, opened |-> NoFile]

Response(status, json, error, dets, url, data) ==
    [status |-> status, json |-> json, error |-> error,
     detections |-> dets, image_url |-> url, data |-> data]

NoResp == Response(0, FALSE, "", <<>>, 0, NoFile)

\* jsonify(error=msg), status
JsonError(status, msg) == Response(status, TRUE, msg, <<>>, 0, NoFile)

\* an exception that leaves the view function: the framework's 500 page
ServerError == Response(500, FALSE, "Internal Server Error", <<>>, 0, NoFile)

\* variant: without the check for empty bytes
ValidateRequestNoEmptyCheck(payload) ==
    IF payload = "absent" THEN "No image part" ELSE "ok"

\* the two checks of detect() before the pipeline
ValidateRequest(payload) ==
    IF payload = "absent" THEN "No image part"
    ELSE IF payload = "empty" THEN "No selected image"
    ELSE "ok"

\* Image.open(io.BytesIO(image)) accepts the bytes
Decodes(payload) == payload \in Images

Exists(fs, f) == fs[f] # NoFile

\* variant: the file is not removed
RemoveFileKeep(fs, f) == fs

\* os.remove(file_path)
RemoveFile(fs, f) == [fs EXCEPT ![f] = NoFile]

Busy(t) == pc[t] # "idle"

\* the view function returns (or raises): the thread hands the response to the
\* client and is free again
Complete(t, r) ==
    /\ last' = [req |-> req[t], resp |-> r]
    /\ pc' = [pc EXCEPT ![t] = "idle"]
    /\ req' = [req EXCEPT ![t] = NoReq]
    /\ loc' = [loc EXCEPT ![t] = NoLoc]

BeginCommon(t) ==
    /\ ~Busy(t)
    /\ started < MaxRequests
    /\ started' = started + 1
    /\ concurrent' = (concurrent \/ \E u \in Threads \ {t} : Busy(u))
    /\ UNCHANGED <<loc, interpreter, files, written, created, log, last, post>>

\* a POST /detect arrives and a request thread takes it
BeginDetect(t) ==
    /\ BeginCommon(t)
    /\ \E p \in Payloads :
          req' = [req EXCEPT ![t] = [kind |-> "detect", payload |-> p, filename |-> 0]]
    /\ pc' = [pc EXCEPT ![t] = "detect"]

\* a GET /image/<filename> arrives: a name handed out before, or the next one
BeginGet(t) ==
    /\ BeginCommon(t)
    /\ \E f \in Filenames :
          /\ f <= created + 1
          /\ req' = [req EXCEPT ![t] = [kind |-> "get", payload |-> "none", filename |-> f]]
    /\ pc' = [pc EXCEPT ![t] = "get_image"]

\* detect() up to the submit, then preprocess_image in tflite_detect_image
DetectStart(t) ==
    /\ pc[t] = "detect"
    /\ LET v == ValidateRequest(req[t].payload)
       IN  IF v # "ok"
           THEN Complete(t, JsonError(400, v))
           ELSE IF ~Decodes(req[t].payload)
           THEN Complete(t, ServerError)
           ELSE /\ loc' = [loc EXCEPT ![t].image_np = req[t].payload]
                /\ pc' = [pc EXCEPT ![t] = "set_tensor"]
                /\ UNCHANGED <<req, last>>
    /\ UNCHANGED <<interpreter, files, written, created, started, log,
                   concurrent, post>>

\* interpreter.set_tensor(input_details[0]['index'], input_data)
SetTensor(t) ==
    /\ pc[t] = "set_tensor"
    /\ interpreter' = [interpreter EXCEPT !.input = loc[t].image_np]
    /\ pc' = [pc EXCEPT ![t] = "invoke"]
    /\ UNCHANGED <<req, loc, last, files, written, created, started, log,
                   concurrent, post>>

\* interpreter.invoke()
Invoke(t) ==
    /\ pc[t] = "invoke"
    /\ interpreter' = [interpreter EXCEPT !.output = Model(interpreter.input)]
    /\ pc' = [pc EXCEPT ![t] = "get_tensor"]
    /\ UNCHANGED <<req, loc, last, files, written, created, started, log,
                   concurrent, post>>

\* boxes, classes, scores = interpreter.get_tensor(...)[0]
GetTensor(t) ==
    /\ pc[t] = "get_tensor"
    /\ loc' = [loc EXCEPT ![t].raw = interpreter.output]
    /\ pc' = [pc EXCEPT ![t] = "postprocess"]
    /\ UNCHANGED <<req, last, interpreter, files, written, created, started, log,
                   concurrent, post>>

\* the rest of tflite_detect_image and of detect(): the detection list, the
\* annotated file under a new name, the JSON response
DetectFinish(t) ==
    /\ pc[t] = "postprocess"
    /\ LET r == Postprocess(loc[t].raw, min_conf_threshold)
           f == created + 1
           jpg == Annotate(loc[t].image_np, r.detections)
       IN  IF r.error # "none"
           THEN /\ Complete(t, ServerError)
                /\ UNCHANGED <<files, written, created>>
           ELSE /\ files' = [files EXCEPT ![f] = jpg]
                /\ written' = [written EXCEPT ![f] = jpg]
                /\ created' = f
                /\ Complete(t, Response(200, TRUE, "", r.detections, f, NoFile))
    /\ UNCHANGED <<interpreter, started, log, concurrent, post>>

LogEntry(t, r) ==
    [filename |-> req[t].filename, status |-> r.status, error |-> r.error,
     data |-> r.data, put |-> req[t].filename <= created]

GetDone(t, r) ==
    /\ Complete(t, r)
    /\ log' = Append(log, LogEntry(t, r))

\* if not os.path.exists(file_path): return jsonify(error="File not found"), 404
GetExists(t) ==
    /\ pc[t] = "get_image"
    /\ IF Exists(files, req[t].filename)
       THEN /\ pc' = [pc EXCEPT ![t] = "send_file"]
            /\ UNCHANGED <<req, loc, last, log>>
       ELSE GetDone(t, JsonError(404, "File not found"))
    /\ UNCHANGED <<interpreter, files, written, created, started,
                   concurrent, post>>

\* response = send_file(file_path, mimetype='image/jpeg'): opens the file, and
\* raises when the file is gone
GetSendFile(t) ==
    /\ pc[t] = "send_file"
    /\ IF Exists(files, req[t].filename)
       THEN /\ loc' = [loc EXCEPT ![t].opened = files[req[t].filename]]
            /\ pc' = [pc EXCEPT ![t] = "remove"]
            /\ UNCHANGED <<req, last, log>>
       ELSE GetDone(t, ServerError)
    /\ UNCHANGED <<interpreter, files, written, created, started,
                   concurrent, post>>

\* os.remove(file_path); return response.  os.remove raises when the file is gone
GetRemove(t) ==
    /\ pc[t] = "remove"
    /\ IF Exists(files, req[t].filename)
       THEN /\ files' = RemoveFile(files, req[t].filename)
            /\ GetDone(t, Response(200, FALSE, "", <<>>, 0, loc[t].opened))
       ELSE /\ GetDone(t, ServerError)
            /\ files' = files
    /\ UNCHANGED <<interpreter, written, created, started, concurrent, post>>

NoLast == [req |-> NoReq, resp |-> NoResp]

ServerInit ==
    /\ pc = [t \in Threads |-> "idle"]
    /\ req = [t \in Threads |-> NoReq]
    /\ loc = [t \in Threads |-> NoLoc]
    /\ last = NoLast
    /\ interpreter = [input |-> "none", output |-> NoOutput]
    /\ files = [f \in Filenames |-> NoFile]
    /\ written = [f \in Filenames |-> NoFile]
    /\ created = 0
    /\ started = 0
    /\ log = <<>>
    /\ concurrent = FALSE

Init ==
    /\ ServerInit
    /\ post = NoPost

Next ==
    \E t \in Threads :
        \/ BeginDetect(t)
        \/ BeginGet(t)
        \/ DetectStart(t)
        \/ SetTensor(t)
        \/ Invoke(t)
        \/ GetTensor(t)
        \/ DetectFinish(t)
        \/ GetExists(t)
        \/ GetSendFile(t)
        \/ GetRemove(t)

Spec == Init /\ [][Next]_vars

InitPost ==
    /\ ServerInit
    /\ \E o \in ModelOutputs, m \in MinConfSet :
          post = [stage |-> "input", out |-> o, min_conf |-> m]

NextPost == RunPostprocess

SpecPost == InitPost /\ [][NextPost]_vars

(***************************************************************************)
(* Properties of the postprocessing (SpecPost).                            *)
(***************************************************************************)
PostDone == post.stage = "done" /\ post.result.error = "none"

ValidClass(c) == c >= 0 /\ c < Len(labels)

ValidClasses == \A i \in 1 .. NumDet : ValidClass(post.out.classes[i])

InImage(d) ==
    /\ 1 <= d.box[1] /\ d.box[1] <= d.box[3] /\ d.box[3] <= imW
    /\ 1 <= d.box[2] /\ d.box[2] <= d.box[4] /\ d.box[4] <= imH

\* C4: every detection kept by the filter has confidence > min_conf and a box
\* with 1 <= xmin <= xmax <= W and 1 <= ymin <= ymax <= H, for every model
\* output, also one with values below 0, above 1, or min above max.
C4_KeptWithinImage ==
    PostDone =>
        \A i \in 1 .. Len(post.result.kept) :
            /\ post.result.kept[i].confidence > post.min_conf
            /\ InImage(post.result.kept[i])

WithConfidence(s, c) ==
    LET Has(d) == d.confidence = c IN SelectSeq(s, Has)

\* C5: the returned detection list is sorted descending by confidence, holds
\* exactly the detections the filter kept, and detections of equal confidence
\* keep the order of their model-output indices.
C5_SortedStable ==
    PostDone =>
        LET kept == post.result.kept
            sorted == post.result.sorted
            dets == post.result.detections
        IN  /\ Len(sorted) = Len(kept)
            /\ Len(dets) = Len(kept)
            /\ \A i \in 1 .. Len(dets) - 1 :
                  dets[i].confidence >= dets[i + 1].confidence
            /\ \A i \in 1 .. Len(dets) :
                  /\ dets[i].confidence = sorted[i].confidence
                  /\ dets[i].box = sorted[i].box
            /\ \A c \in ScoreSet : WithConfidence(sorted, c) = WithConfidence(kept, c)

\* two kept detections of equal confidence that differ, and have been sorted
C5_Witness ==
    /\ PostDone
    /\ ValidClasses
    /\ Len(post.result.kept) = 2
    /\ post.result.kept[1].confidence = post.result.kept[2].confidence
    /\ post.result.kept[1] # post.result.kept[2]
    /\ post.result.sorted = post.result.kept

\* C6: with exactly 2 detections whose horizontal centres differ, the one with
\* the smaller centre is labelled left_eye and the other right_eye, whatever
\* their raw labels and confidences; confidence, box and order stay.
C6_TwoEyesByCentre ==
    (PostDone /\ Len(post.result.sorted) = 2) =>
        LET s == post.result.sorted
            d == post.result.detections
            c1 == s[1].box[1] + s[1].box[3]
            c2 == s[2].box[1] + s[2].box[3]
        IN  c1 # c2 =>
              /\ Len(d) = 2
              /\ d[1].object = (IF c1 < c2 THEN "left_eye" ELSE "right_eye")
              /\ d[2].object = (IF c2 < c1 THEN "left_eye" ELSE "right_eye")
              /\ \A i \in 1 .. 2 :
                    d[i].confidence = s[i].confidence /\ d[i].box = s[i].box

\* two detections, the more confident one to the right, raw labels alike
C6_Witness ==
    /\ PostDone
    /\ ValidClasses
    /\ Len(post.result.sorted) = 2
    /\ post.result.sorted[1].confidence > post.result.sorted[2].confidence
    /\ post.result.sorted[1].box[1] + post.result.sorted[1].box[3]
         > post.result.sorted[2].box[1] + post.result.sorted[2].box[3]
    /\ post.result.sorted[1].object = "pupil"
    /\ post.result.sorted[2].object = "pupil"
    /\ post.result.detections[1].object = "right_eye"
    /\ post.result.detections[2].object = "left_eye"

\* C7: a single detection is labelled left_eye when its horizontal centre
\* (xmin + xmax) / 2 is strictly below image_width / 2 and right_eye
\* otherwise, also at exactly image_width / 2, whatever its raw label.
C7_OneEyeByHalf ==
    (PostDone /\ Len(post.result.sorted) = 1) =>
        LET s == post.result.sorted[1]
            d == post.result.detections
        IN  /\ Len(d) = 1
            /\ d[1].object = (IF s.box[1] + s.box[3] < imW THEN "left_eye"
                              ELSE "right_eye")
            /\ d[1].confidence = s.confidence
            /\ d[1].box = s.box

\* a single detection whose centre is exactly half the width
C7_Witness ==
    /\ PostDone
    /\ ValidClasses
    /\ Len(post.result.sorted) = 1
    /\ post.result.sorted[1].box[1] + post.result.sorted[1].box[3] = imW
    /\ post.result.detections[1].object = "right_eye"

\* C8: a kept detection whose class index is outside 0 .. len(labels)-1, too
\* large or negative, makes the label resolution fail: no detection list is
\* produced and the index is never resolved to a label of the table.
C8_BadClassFails ==
    (post.stage = "done"
       /\ \E i \in 1 .. NumDet :
             post.out.scores[i] > post.min_conf /\ ~ValidClass(post.out.classes[i]))
    => post.result.error = IndexError

(***************************************************************************)
(* Properties of the server (Spec).                                        *)
(***************************************************************************)
TakesOf(f) ==
    LET Of(e) == e.filename = f /\ e.put IN SelectSeq(log, Of)

EarlyOf(f) ==
    LET Of(e) == e.filename = f /\ ~e.put IN SelectSeq(log, Of)

Taking(f) == \E t \in Threads : req[t].kind = "get" /\ req[t].filename = f

OneTakenRestNotFound(L) ==
    /\ \E i \in 1 .. Len(L) :
          /\ L[i].status = 200
          /\ \A j \in (1 .. Len(L)) \ {i} :
                L[j].status = 404 /\ L[j].error = "File not found"

\* C1: of the GET /image/<filename> requests for a filename that was put,
\* under any interleaving, exactly one succeeds with the image and every other
\* one gets 404 'File not found'; no request ends otherwise.
C1_OneTakerOthersNotFound ==
    \A f \in Filenames :
        LET L == TakesOf(f)
        IN  /\ \A i \in 1 .. Len(L) : L[i].status \in {200, 404}
            /\ (Len(L) >= 1 /\ ~Taking(f)) => OneTakenRestNotFound(L)

\* C2: in a sequential history the first GET after the file was written returns
\* that image and removes the file, every later GET of the name returns 404
\* 'File not found', and so does a GET of a name never written.
C2_SequentialTakeOnce ==
    ~concurrent =>
        \A f \in Filenames :
            LET L == TakesOf(f)
                E == EarlyOf(f)
            IN  /\ \A i \in 1 .. Len(E) :
                      E[i].status = 404 /\ E[i].error = "File not found"
                /\ Len(L) >= 1 =>
                      /\ L[1].status = 200
                      /\ L[1].data = written[f]
                      /\ L[1].data # NoFile
                      /\ \A i \in 2 .. Len(L) :
                            L[i].status = 404 /\ L[i].error = "File not found"
                /\ (f <= created /\ ~Taking(f)) => (Exists(files, f) <=> Len(L) = 0)

\* a /detect, then two GETs of its image, one after the other
C2_Witness ==
    /\ ~concurrent
    /\ Len(TakesOf(1)) = 2
    /\ TakesOf(1)[1].status = 200
    /\ TakesOf(1)[2].status = 404
    /\ ~Exists(files, 1)

\* C3: a request reads the boxes, classes and scores computed from its own
\* input tensor, also when other /detect requests run at the same time.
C3_ReadsOwnOutputs ==
    \A t \in Threads :
        pc[t] = "postprocess" => loc[t].raw = Model(loc[t].image_np)

\* C9: every error of the /detect pipeline reaches the caller as a JSON error
\* body; a non-empty payload that is no image gets a 400.
C9_ErrorsAsJson ==
    (last.req.kind = "detect" /\ last.resp.status # 200) =>
        /\ last.resp.json
        /\ last.req.payload = "garbage" => last.resp.status = 400

Rejection(p) ==
    IF p = "absent" THEN JsonError(400, "No image part")
    ELSE JsonError(400, "No selected image")

\* C10: a /detect request without the 'image' field gets 400 'No image part',
\* one whose field decodes to no bytes gets 400 'No selected image'; its only
\* step is the rejection, which leaves the interpreter and the files alone.
C10_RejectedBeforePipeline ==
    [][\A t \in Threads :
          (pc[t] = "detect" /\ req[t].payload \in {"absent", "empty"} /\ pc'[t] # pc[t])
          => /\ pc'[t] = "idle"
             /\ last' = [req |-> req[t], resp |-> Rejection(req[t].payload)]
             /\ UNCHANGED <<interpreter, files, written, created>>]_vars

\* an empty payload was rejected while nothing had reached the model or the files
C10_Witness ==
    /\ last.req.kind = "detect"
    /\ last.req.payload = "empty"
    /\ last.resp.status = 400
    /\ last.resp.error = "No selected image"
    /\ interpreter.input = "none"
    /\ created = 0

====
